---- MODULE Spec2Model ----
(***************************************************************************)
(* Model of the resume backend (src/backend/resume.py): the heuristic      *)
(* resume parser, the renderer and the /resume/parse handler.              *)
(*                                                                         *)
(* A Python str is a sequence of one-character strings.  None is the       *)
(* string "none" where a section key is expected.                          *)
(***************************************************************************)
EXTENDS Integers, Sequences, FiniteSets, TLC

VARIABLES
  pc,               \* the point the running function has reached
  line,             \* the line handed to _detect_section
  sec,              \* what _detect_section returned for it
  text,             \* the text handed to heuristic_parse
  raws,             \* _parse_sections: the raw lines the loop walks
  i,                \* the position of the running loop in its sequence
  current,          \* _parse_sections: current
  sections,         \* _parse_sections: sections
  full_name,        \* heuristic_parse: name
  contact_info,     \* heuristic_parse: contact
  summary,          \* heuristic_parse: summary
  work_experience,  \* heuristic_parse: work_experience
  education,        \* heuristic_parse: education
  skills,           \* heuristic_parse: skills
  certs,            \* heuristic_parse: certs
  parsed,           \* the record handed to render_resume_text
  resume_text,      \* what render_resume_text did with it
  lines,            \* _parse_education: lines
  buf,              \* _parse_education: buf
  result,           \* _parse_education: result
  api_key,          \* whether OPENAI_API_KEY is set
  content,          \* parse_resume: content
  response          \* parse_resume: the value returned under "parsed"

walk_vars == <<raws, i, current, sections>>

field_vars == <<full_name, contact_info, summary, work_experience, education, skills, certs>>

render_vars == <<parsed, resume_text>>

edu_vars == <<lines, buf, result>>

handler_vars == <<api_key, content, response>>

vars == <<pc, line, sec, text, walk_vars, field_vars, render_vars, edu_vars, handler_vars>>

\* ------------------------------------------------------------------------
\* Bounds of the model
\* ------------------------------------------------------------------------
MaxAffix == 1

MaxLines == 4

MaxEduLines == 4

MaxContent == 3

MaxBlankLen == 4

\* ------------------------------------------------------------------------
\* Characters and the str methods the code uses
\* ------------------------------------------------------------------------
UpperChars == <<"A","B","C","D","E","F","G","H","I","J","K","L","M",
                "N","O","P","Q","R","S","T","U","V","W","X","Y","Z">>

LowerChars == <<"a","b","c","d","e","f","g","h","i","j","k","l","m",
                "n","o","p","q","r","s","t","u","v","w","x","y","z">>

\* the characters outside ASCII that the code names, by their code points
U_BULLET == "U+2022"

U_EN_DASH == "U+2013"

U_EM_DASH == "U+2014"

U_IDEO_COMMA == "U+3001"

Digits == {"0","1","2","3","4","5","6","7","8","9"}

Range(s) == {s[k] : k \in 1..Len(s)}

UpperSet == Range(UpperChars)

LowerSet == Range(LowerChars)

\* str.isspace() / the regex class \s, on the characters of the model
IsSpace(c) == c \in {" ", "\t", "\n", "\r"}

\* str.lower() on one character
LowerChar(c) ==
  IF c \in UpperSet
    THEN LowerChars[CHOOSE k \in 1..26 : UpperChars[k] = c]
    ELSE c

\* str.upper() on one character
UpperChar(c) ==
  IF c \in LowerSet
    THEN UpperChars[CHOOSE k \in 1..26 : LowerChars[k] = c]
    ELSE c

LowerStr(s) == [k \in 1..Len(s) |-> LowerChar(s[k])]

UpperStr(s) == [k \in 1..Len(s) |-> UpperChar(s[k])]

\* str.isupper(): at least one cased character and no lower-case one
IsUpperStr(s) ==
  /\ \E k \in 1..Len(s) : s[k] \in UpperSet
  /\ \A k \in 1..Len(s) : s[k] \notin LowerSet

\* s[:n]
Take(s, n) == IF Len(s) <= n THEN s ELSE SubSeq(s, 1, n)

\* s[n:] with n counted from 0
Drop(s, n) == IF n >= Len(s) THEN <<>> ELSE SubSeq(s, n + 1, Len(s))

\* str.strip(chars) and the one-sided variants
LStripChars(s, cs) ==
  IF \A k \in 1..Len(s) : s[k] \in cs
    THEN <<>>
    ELSE LET f == CHOOSE k \in 1..Len(s) :
                    /\ s[k] \notin cs
                    /\ \A j \in 1..(k - 1) : s[j] \in cs
         IN  SubSeq(s, f, Len(s))

RStripChars(s, cs) ==
  IF \A k \in 1..Len(s) : s[k] \in cs
    THEN <<>>
    ELSE LET l == CHOOSE k \in 1..Len(s) :
                    /\ s[k] \notin cs
                    /\ \A j \in (k + 1)..Len(s) : s[j] \in cs
         IN  SubSeq(s, 1, l)

StripChars(s, cs) == LStripChars(RStripChars(s, cs), cs)

SpaceChars == {" ", "\t", "\n", "\r"}

\* str.strip(), str.rstrip(), str.lstrip()
Strip(s) == StripChars(s, SpaceChars)

RStrip(s) == RStripChars(s, SpaceChars)

LStrip(s) == LStripChars(s, SpaceChars)

\* re.sub(r"\s+", " ", s): every maximal run of whitespace becomes one space
RECURSIVE CollapseSpaces(_)
CollapseSpaces(s) ==
  IF s = <<>> THEN <<>>
  ELSE IF IsSpace(s[1])
    THEN <<" ">> \o CollapseSpaces(LStrip(s))
    ELSE <<s[1]>> \o CollapseSpaces(Tail(s))

\* _norm
Norm(s) == CollapseSpaces(Strip(s))

\* sub in s
Contains(s, sub) ==
  \E k \in 0..(Len(s) - Len(sub)) : SubSeq(s, k + 1, k + Len(sub)) = sub

\* b.startswith(a)
IsPrefix(a, b) == Len(a) <= Len(b) /\ SubSeq(b, 1, Len(a)) = a

\* sep.join(parts)
RECURSIVE Join(_, _)
Join(sep, parts) ==
  IF parts = <<>> THEN <<>>
  ELSE IF Len(parts) = 1 THEN parts[1]
  ELSE parts[1] \o sep \o Join(sep, Tail(parts))

\* ------------------------------------------------------------------------
\* Section classifier
\* ------------------------------------------------------------------------
None == "none"

\* the keys of UPPER_HDRS in the order the dict is written
SectionKeys ==
  <<"experience", "education", "skills", "certifications", "projects", "summary">>

UPPER_HDRS(key) ==
  IF key = "experience" THEN
     {<<"e","x","p","e","r","i","e","n","c","e">>,
      <<"w","o","r","k"," ","e","x","p","e","r","i","e","n","c","e">>,
      <<"p","r","o","f","e","s","s","i","o","n","a","l"," ","e","x","p","e","r","i","e","n","c","e">>,
      <<"e","m","p","l","o","y","m","e","n","t"," ","h","i","s","t","o","r","y">>,
      <<"c","a","r","e","e","r"," ","h","i","s","t","o","r","y">>}
  ELSE IF key = "education" THEN
     {<<"e","d","u","c","a","t","i","o","n">>,
      <<"a","c","a","d","e","m","i","c"," ","h","i","s","t","o","r","y">>,
      <<"a","c","a","d","e","m","i","c","s">>}
  ELSE IF key = "skills" THEN
     {<<"s","k","i","l","l","s">>,
      <<"t","e","c","h","n","i","c","a","l"," ","s","k","i","l","l","s">>,
      <<"k","e","y"," ","s","k","i","l","l","s">>}
  ELSE IF key = "certifications" THEN
     {<<"c","e","r","t","i","f","i","c","a","t","i","o","n","s">>,
      <<"l","i","c","e","n","s","e","s">>,
      <<"l","i","c","e","n","c","e","s">>,
      <<"c","e","r","t","s">>}
  ELSE IF key = "projects" THEN
     {<<"p","r","o","j","e","c","t","s">>,
      <<"s","e","l","e","c","t","e","d"," ","p","r","o","j","e","c","t","s">>,
      <<"n","o","t","a","b","l","e"," ","p","r","o","j","e","c","t","s">>}
  ELSE
     {<<"s","u","m","m","a","r","y">>,
      <<"p","r","o","f","e","s","s","i","o","n","a","l"," ","s","u","m","m","a","r","y">>,
      <<"p","r","o","f","i","l","e">>,
      <<"o","b","j","e","c","t","i","v","e">>}

\* len(line) <= 40 in _detect_section
MaxHeadingLen == 40

W_EDUCATION == <<"E","D","U","C","A","T","I","O","N">>

W_SKILL == <<"S","K","I","L","L">>

W_CERT == <<"C","E","R","T">>

W_LICENSE == <<"L","I","C","E","N","S","E">>

W_LICENCE == <<"L","I","C","E","N","C","E">>

W_PROJECT == <<"P","R","O","J","E","C","T">>

W_SUMMARY == <<"S","U","M","M","A","R","Y">>

W_PROFILE == <<"P","R","O","F","I","L","E">>

W_OBJECTIVE == <<"O","B","J","E","C","T","I","V","E">>

W_EXPERIENCE == <<"E","X","P","E","R","I","E","N","C","E">>

W_EMPLOY == <<"E","M","P","L","O","Y">>

W_CAREER == <<"C","A","R","E","E","R">>

\* the first tier of _detect_section: t = _norm(line).lower().strip(" :")
HeaderKey(ln) == StripChars(LowerStr(Norm(ln)), {" ", ":"})

\* UpperTokenSection with the experience tokens tested first
UpperTokenSectionExperienceFirst(ln) ==
  IF \/ Contains(ln, W_EXPERIENCE)
     \/ Contains(ln, W_EMPLOY)
     \/ Contains(ln, W_CAREER) THEN "experience"
  ELSE IF Contains(ln, W_EDUCATION) THEN "education"
  ELSE IF Contains(ln, W_SKILL) THEN "skills"
  ELSE IF \/ Contains(ln, W_CERT)
          \/ Contains(ln, W_LICENSE)
          \/ Contains(ln, W_LICENCE) THEN "certifications"
  ELSE IF Contains(ln, W_PROJECT) THEN "projects"
  ELSE IF \/ Contains(ln, W_SUMMARY)
          \/ Contains(ln, W_PROFILE)
          \/ Contains(ln, W_OBJECTIVE) THEN "summary"
  ELSE None

\* the second tier of _detect_section: the chain of substring tests
UpperTokenSection(ln) ==
  IF Contains(ln, W_EDUCATION) THEN "education"
  ELSE IF Contains(ln, W_SKILL) THEN "skills"
  ELSE IF \/ Contains(ln, W_CERT)
          \/ Contains(ln, W_LICENSE)
          \/ Contains(ln, W_LICENCE) THEN "certifications"
  ELSE IF Contains(ln, W_PROJECT) THEN "projects"
  ELSE IF \/ Contains(ln, W_SUMMARY)
          \/ Contains(ln, W_PROFILE)
          \/ Contains(ln, W_OBJECTIVE) THEN "summary"
  ELSE IF \/ Contains(ln, W_EXPERIENCE)
          \/ Contains(ln, W_EMPLOY)
          \/ Contains(ln, W_CAREER) THEN "experience"
  ELSE None

\* _detect_section
DetectSection(ln) ==
  LET t == HeaderKey(ln)
      hits == {k \in 1..Len(SectionKeys) : t \in UPPER_HDRS(SectionKeys[k])}
  IN  IF hits # {}
        THEN SectionKeys[CHOOSE k \in hits : \A j \in hits : k <= j]
      ELSE IF IsUpperStr(ln) /\ Len(ln) <= MaxHeadingLen
        THEN UpperTokenSection(ln)
      ELSE None

\* ------------------------------------------------------------------------
\* Line splitting
\* ------------------------------------------------------------------------

\* s.replace("\r\n", "\n")
RECURSIVE ReplaceCRLF(_)
ReplaceCRLF(s) ==
  IF s = <<>> THEN <<>>
  ELSE IF Len(s) >= 2 /\ s[1] = "\r" /\ s[2] = "\n"
    THEN <<"\n">> \o ReplaceCRLF(Drop(s, 2))
    ELSE <<s[1]>> \o ReplaceCRLF(Tail(s))

\* s.replace("\r", "\n")
ReplaceCR(s) == [k \in 1..Len(s) |-> IF s[k] = "\r" THEN "\n" ELSE s[k]]

\* s.split("\n")
RECURSIVE SplitNL(_)
SplitNL(s) ==
  IF \A k \in 1..Len(s) : s[k] # "\n"
    THEN <<s>>
    ELSE LET p == CHOOSE k \in 1..Len(s) :
                    /\ s[k] = "\n"
                    /\ \A j \in 1..(k - 1) : s[j] # "\n"
         IN  <<SubSeq(s, 1, p - 1)>> \o SplitNL(Drop(s, p))

\* text.replace("\r\n","\n").replace("\r","\n").split("\n") in _parse_sections
SectionLines(txt) == SplitNL(ReplaceCR(ReplaceCRLF(txt)))

\* str.splitlines(): breaks at \n, \r and \r\n, and no empty line after a final break
SplitLines(s) ==
  LET parts == SectionLines(s)
  IN  IF parts[Len(parts)] = <<>> THEN SubSeq(parts, 1, Len(parts) - 1) ELSE parts

\* [f(x) for x in xs if x.strip()] with f = strip: the stripped non-blank lines
RECURSIVE StrippedNonBlank(_)
StrippedNonBlank(ls) ==
  IF ls = <<>> THEN <<>>
  ELSE IF Strip(ls[1]) # <<>>
    THEN <<Strip(ls[1])>> \o StrippedNonBlank(Tail(ls))
    ELSE StrippedNonBlank(Tail(ls))

\* _first_nonempty_lines
FirstNonemptyLines(txt, n) == Take(StrippedNonBlank(SplitLines(txt)), n)

\* str.split(): the maximal runs of non-whitespace
RECURSIVE Words(_)
Words(s) ==
  LET t == LStrip(s)
  IN  IF t = <<>> THEN <<>>
      ELSE IF \A k \in 1..Len(t) : ~IsSpace(t[k])
        THEN <<t>>
        ELSE LET p == CHOOSE k \in 1..Len(t) :
                        /\ IsSpace(t[k])
                        /\ \A j \in 1..(k - 1) : ~IsSpace(t[j])
             IN  <<SubSeq(t, 1, p - 1)>> \o Words(Drop(t, p))

\* str.capitalize()
Capitalize(w) ==
  [k \in 1..Len(w) |-> IF k = 1 THEN UpperChar(w[k]) ELSE LowerChar(w[k])]

\* ------------------------------------------------------------------------
\* Name
\* ------------------------------------------------------------------------

Letters == UpperSet \cup LowerSet

\* _only_letters_and_space: fullmatch [A-Za-z][A-Za-z \-'.]{1,80}
OnlyLettersAndSpace(s) ==
  /\ Len(s) >= 2
  /\ Len(s) <= 81
  /\ s[1] \in Letters
  /\ \A k \in 2..Len(s) : s[k] \in Letters \cup {" ", "-", "'", "."}

\* _likely_name
LikelyName(ln) ==
  LET l == Strip(ln)
  IN  /\ ln # <<>>
      /\ Len(l) >= 3
      /\ Len(l) <= 80
      /\ \/ IsUpperStr(l) /\ Len(Words(l)) <= 4
         \/ OnlyLettersAndSpace(l) /\ Len(Words(l)) \in {2, 3, 4}

\* the value _guess_name returns for a line that looks like a name
NameOf(l) ==
  IF IsUpperStr(l)
    THEN UpperStr(l)
    ELSE Join(<<" ">>, [k \in 1..Len(Words(l)) |-> Capitalize(Words(l)[k])])

\* _guess_name falling back on the first line as it stands, neither stripped
\* nor normalized
GuessNameFirstRawLine(txt) ==
  LET first == FirstNonemptyLines(txt, 8)
      likely == {k \in 1..Len(first) : LikelyName(first[k])}
  IN  IF likely # {}
        THEN NameOf(first[CHOOSE k \in likely : \A j \in likely : k <= j])
      ELSE IF SplitLines(txt) # <<>>
        THEN SplitLines(txt)[1]
      ELSE <<>>

\* _guess_name
GuessName(txt) ==
  LET first == FirstNonemptyLines(txt, 8)
      likely == {k \in 1..Len(first) : LikelyName(first[k])}
  IN  IF likely # {}
        THEN NameOf(first[CHOOSE k \in likely : \A j \in likely : k <= j])
      ELSE IF FirstNonemptyLines(txt, 1) # <<>>
        THEN Norm(FirstNonemptyLines(txt, 1)[1])
      ELSE Norm(<<>>)

\* ------------------------------------------------------------------------
\* Bullets
\* ------------------------------------------------------------------------

BulletMarks == {"-", U_BULLET, "*"}

\* the length of what ^\s*[-U+2022*]\s+ matches at the start of l, 0 when it does not
BulletPrefixLen(l) ==
  LET body == LStrip(l)
      lead == Len(l) - Len(body)
  IN  IF /\ Len(body) >= 2
         /\ body[1] \in BulletMarks
         /\ IsSpace(body[2])
        THEN lead + 1 + (Len(body) - 1 - Len(LStrip(Tail(body))))
        ELSE 0

\* _collect_bullets: group(1) of ^\s*(?:[-U+2022*]|U+2022|U+2022)\s+(.*)$, normalized,
\* for the lines that match, the empty ones left out
RECURSIVE CollectBullets(_)
CollectBullets(ls) ==
  IF ls = <<>> THEN <<>>
  ELSE LET l == ls[1]
           n == BulletPrefixLen(l)
           bb == Norm(Drop(l, n))
       IN  IF n > 0 /\ bb # <<>>
             THEN <<bb>> \o CollectBullets(Tail(ls))
             ELSE CollectBullets(Tail(ls))

\* ------------------------------------------------------------------------
\* Section segmenter
\* ------------------------------------------------------------------------

BucketKeys == Range(SectionKeys)

EmptySections == [k \in BucketKeys |-> <<>>]

\* SectionStep with the heading line kept as the first line of its bucket
SectionStepKeepsHeading(st, raw) ==
  LET ln == RStrip(raw)
      s == DetectSection(ln)
  IN  IF Strip(ln) = <<>>
        THEN IF st.current # None
               THEN [st EXCEPT !.sections[st.current] = Append(@, <<>>)]
               ELSE st
      ELSE IF s # None
        THEN [st EXCEPT !.current = s, !.sections[s] = Append(@, ln)]
      ELSE IF st.current # None
        THEN [st EXCEPT !.sections[st.current] = Append(@, ln)]
      ELSE [st EXCEPT !.sections["summary"] = Append(@, ln)]

\* one iteration of the loop of _parse_sections over the raw line raw
SectionStep(st, raw) ==
  LET ln == RStrip(raw)
      s == DetectSection(ln)
  IN  IF Strip(ln) = <<>>
        THEN IF st.current # None
               THEN [st EXCEPT !.sections[st.current] = Append(@, <<>>)]
               ELSE st
      ELSE IF s # None
        THEN [st EXCEPT !.current = s]
      ELSE IF st.current # None
        THEN [st EXCEPT !.sections[st.current] = Append(@, ln)]
      ELSE [st EXCEPT !.sections["summary"] = Append(@, ln)]

\* _parse_sections
RECURSIVE WalkFrom(_, _)
WalkFrom(st, rs) ==
  IF rs = <<>> THEN st ELSE WalkFrom(SectionStep(st, rs[1]), Tail(rs))

ParseSections(txt) ==
  WalkFrom([current |-> None, sections |-> EmptySections], SectionLines(txt)).sections

\* ------------------------------------------------------------------------
\* Contact info
\* ------------------------------------------------------------------------

\* the characters of the model in code point order, for sorted()
CodeOrder == <<"\t", "\n", "\r", " ", "%", "'", "(", ")", "*", "+", ",", "-", ".", "/",
               "0","1","2","3","4","5","6","7","8","9", ":", ";", "@">>
             \o UpperChars \o <<"_">> \o LowerChars \o <<"|", U_EN_DASH, U_EM_DASH, U_BULLET, U_IDEO_COMMA>>

CharCode(c) == CHOOSE k \in 1..Len(CodeOrder) : CodeOrder[k] = c

\* a < b for two str
LexLess(a, b) ==
  \/ /\ Len(a) < Len(b)
     /\ \A k \in 1..Len(a) : a[k] = b[k]
  \/ \E k \in 1..Len(a) :
       /\ k <= Len(b)
       /\ \A j \in 1..(k - 1) : a[j] = b[j]
       /\ CharCode(a[k]) < CharCode(b[k])

\* sorted(S) for a set of str
RECURSIVE Sorted(_)
Sorted(S) ==
  IF S = {} THEN <<>>
  ELSE LET m == CHOOSE x \in S : \A y \in S \ {x} : LexLess(x, y)
       IN  <<m>> \o Sorted(S \ {m})

\* the regex class \w
WordChars == Letters \cup Digits \cup {"_"}

\* \b holds between positions k - 1 and k of s
WordBoundary(s, k) ==
  LET before == k > 1 /\ k - 1 <= Len(s) /\ s[k - 1] \in WordChars
      after == k >= 1 /\ k <= Len(s) /\ s[k] \in WordChars
  IN  before # after

\* (?:19|20)\d{2} matches s at position k
Year4At(s, k) ==
  /\ k >= 1
  /\ k + 3 <= Len(s)
  /\ SubSeq(s, k, k + 1) \in {<<"1","9">>, <<"2","0">>}
  /\ s[k + 2] \in Digits
  /\ s[k + 3] \in Digits

\* the first position at or after k that holds no whitespace
SkipSpaces(s, k) == k + (Len(s) - k + 1) - Len(LStrip(Drop(s, k - 1)))

\* the length of what \b(?:19|20)\d{2}\s*[-U+2013]\s*(?:19|20)\d{2}\b matches at k, 0 if nothing
YearRangeLen(s, k) ==
  IF ~(WordBoundary(s, k) /\ Year4At(s, k)) THEN 0
  ELSE LET d == SkipSpaces(s, k + 4)
       IN  IF ~(d <= Len(s) /\ s[d] \in {"-", U_EN_DASH}) THEN 0
           ELSE LET y == SkipSpaces(s, d + 1)
                IN  IF Year4At(s, y) /\ WordBoundary(s, y + 4)
                      THEN y + 4 - k
                      ELSE 0

\* the length of what \b(?:19|20)\d{2}\b matches at k, 0 if nothing
YearLen(s, k) ==
  IF WordBoundary(s, k) /\ Year4At(s, k) /\ WordBoundary(s, k + 4) THEN 4 ELSE 0

\* re.sub(<year range>, " ", s), from position k on
RECURSIVE SubYearRanges(_, _)
SubYearRanges(s, k) ==
  IF k > Len(s) THEN <<>>
  ELSE IF YearRangeLen(s, k) > 0
    THEN <<" ">> \o SubYearRanges(s, k + YearRangeLen(s, k))
    ELSE <<s[k]>> \o SubYearRanges(s, k + 1)

\* re.sub(<year>, " ", s), from position k on
RECURSIVE SubYears(_, _)
SubYears(s, k) ==
  IF k > Len(s) THEN <<>>
  ELSE IF YearLen(s, k) > 0
    THEN <<" ">> \o SubYears(s, k + 4)
    ELSE <<s[k]>> \o SubYears(s, k + 1)

EmailLocalChars == Letters \cup Digits \cup {".", "_", "%", "+", "-"}

EmailDomainChars == Letters \cup Digits \cup {".", "-"}

\* the last position of the maximal run of characters of cs that starts at k
\* (k - 1 when s[k] is not in cs)
RunEnd(s, k, cs) ==
  IF \A j \in k..Len(s) : s[j] \in cs
    THEN Len(s)
    ELSE (CHOOSE j \in k..Len(s) :
            /\ s[j] \notin cs
            /\ \A h \in k..(j - 1) : s[h] \in cs) - 1

\* the last position of the match of EMAIL_RE that starts at k, 0 if there is none
EmailEnd(s, k) ==
  LET a == RunEnd(s, k, EmailLocalChars)
  IN  IF ~(a >= k /\ a + 1 <= Len(s) /\ s[a + 1] = "@") THEN 0
      ELSE LET d == RunEnd(s, a + 2, EmailDomainChars)
               dots == {p \in (a + 3)..d :
                          /\ s[p] = "."
                          /\ p + 2 <= Len(s)
                          /\ s[p + 1] \in Letters
                          /\ s[p + 2] \in Letters}
           IN  IF dots = {} THEN 0
               ELSE RunEnd(s, (CHOOSE p \in dots : \A q \in dots : q <= p) + 1, Letters)

\* EMAIL_RE.findall(s), from position k on, as a set
RECURSIVE FindEmails(_, _)
FindEmails(s, k) ==
  IF k > Len(s) THEN {}
  ELSE IF EmailEnd(s, k) > 0
    THEN {SubSeq(s, k, EmailEnd(s, k))} \cup FindEmails(s, EmailEnd(s, k) + 1)
    ELSE FindEmails(s, k + 1)

PhoneChars == Digits \cup {"-", "(", ")"} \cup SpaceChars

\* the last position of the match of PHONE_RE that starts at k, 0 if there is none
PhoneEnd(s, k) ==
  LET f == IF s[k] = "+" THEN k + 1 ELSE k
  IN  IF ~(f <= Len(s) /\ s[f] \in Digits) THEN 0
      ELSE LET r == RunEnd(s, f + 1, PhoneChars)
               ds == {p \in (f + 7)..r : s[p] \in Digits}
           IN  IF ds = {} THEN 0 ELSE CHOOSE p \in ds : \A q \in ds : q <= p

\* PHONE_RE.findall(s), from position k on, as a sequence
RECURSIVE FindPhones(_, _)
FindPhones(s, k) ==
  IF k > Len(s) THEN <<>>
  ELSE IF PhoneEnd(s, k) > 0
    THEN <<SubSeq(s, k, PhoneEnd(s, k))>> \o FindPhones(s, PhoneEnd(s, k) + 1)
    ELSE FindPhones(s, k + 1)

\* re.sub(r"\D", "", m)
DigitsOf(m) == SelectSeq(m, LAMBDA c : c \in Digits)

\* _extract_contacts_from_header
ExtractContacts(txt) ==
  LET joined == Join(<<"\n">>, FirstNonemptyLines(txt, 20))
      header == SubYears(SubYearRanges(joined, 1), 1)
      emails == FindEmails(header, 1)
      found == FindPhones(header, 1)
      phones == {Norm(found[k]) : k \in {j \in 1..Len(found) :
                    Len(DigitsOf(found[j])) >= 7 /\ "/" \notin Range(found[j])}}
      parts == (IF emails # {} THEN <<Join(<<" ", "/", " ">>, Sorted(emails))>> ELSE <<>>)
               \o (IF phones # {} THEN <<Join(<<" ", "/", " ">>, Sorted(phones))>> ELSE <<>>)
  IN  Join(<<" ", "|", " ">>, parts)

\* ------------------------------------------------------------------------
\* Summary, education, skills, certifications
\* ------------------------------------------------------------------------

\* the truncation of the summary and the stop of its collection
MaxSummaryLen == 600

\* the truncation of an institution
MaxInstitutionLen == 200

\* one iteration of the summary loop of heuristic_parse: st.parts is
\* summary_parts, st.stop is set once the loop has hit a break
SummaryStep(st, l) ==
  IF st.stop THEN st
  ELSE IF Strip(l) = <<>>
    THEN IF st.parts # <<>> THEN [st EXCEPT !.stop = TRUE] ELSE st
  ELSE IF BulletPrefixLen(l) > 0
    THEN st
  ELSE LET ps == Append(st.parts, Norm(l))
       IN  [parts |-> ps, stop |-> Len(Join(<<" ">>, ps)) > MaxSummaryLen]

RECURSIVE SummaryLoop(_, _)
SummaryLoop(st, ls) ==
  IF ls = <<>> THEN st ELSE SummaryLoop(SummaryStep(st, ls[1]), Tail(ls))

\* the summary of heuristic_parse from the summary bucket
SummaryOf(bucket) ==
  Take(Norm(Join(<<" ">>, SummaryLoop([parts |-> <<>>, stop |-> FALSE], bucket).parts)),
       MaxSummaryLen)

\* " ".join(_norm(x) for x in buf if x.strip())
RECURSIVE NormNonBlank(_)
NormNonBlank(ls) ==
  IF ls = <<>> THEN <<>>
  ELSE IF Strip(ls[1]) # <<>>
    THEN <<Norm(ls[1])>> \o NormNonBlank(Tail(ls))
    ELSE NormNonBlank(Tail(ls))

ChunkOf(b) == Join(<<" ">>, NormNonBlank(b))

NewEntry(chunk) ==
  [institution |-> Take(chunk, MaxInstitutionLen), degree |-> <<>>, year |-> <<>>]

\* EduStep with the chunk not closed at a blank line
EduStepIgnoresBlank(st, l) ==
  IF Strip(l) = <<>> THEN st ELSE [st EXCEPT !.buf = Append(@, l)]

\* one iteration of the first loop of _parse_education
EduStep(st, l) ==
  IF Strip(l) = <<>>
    THEN IF st.buf # <<>>
           THEN [result |-> IF ChunkOf(st.buf) # <<>>
                              THEN Append(st.result, NewEntry(ChunkOf(st.buf)))
                              ELSE st.result,
                 buf |-> <<>>]
           ELSE st
    ELSE [st EXCEPT !.buf = Append(@, l)]

\* the flush of the last chunk after the first loop of _parse_education
EduFlush(st) ==
  IF st.buf # <<>>
    THEN [st EXCEPT !.result = Append(@, NewEntry(ChunkOf(st.buf)))]
    ELSE st

\* re.search(r"\b(20|19)\d{2}\b", s): the match, the empty str when there is none
FirstYear(s) ==
  LET hits == {k \in 1..Len(s) : YearLen(s, k) > 0}
  IN  IF hits = {} THEN <<>>
      ELSE SubSeq(s, CHOOSE k \in hits : \A j \in hits : k <= j,
                     (CHOOSE k \in hits : \A j \in hits : k <= j) + 3)

\* the second loop of _parse_education on one entry: the degree is set to ""
\* wherever it is set, the year to the first year of the institution
Enrich(e) ==
  IF FirstYear(e.institution) # <<>>
    THEN [e EXCEPT !.degree = <<>>, !.year = FirstYear(e.institution)]
    ELSE [e EXCEPT !.degree = <<>>]

RECURSIVE EduLoop(_, _)
EduLoop(st, ls) ==
  IF ls = <<>> THEN st ELSE EduLoop(EduStep(st, ls[1]), Tail(ls))

\* _parse_education
ParseEducation(ls) ==
  LET res == EduFlush(EduLoop([result |-> <<>>, buf |-> <<>>], ls)).result
  IN  [k \in 1..Len(res) |-> Enrich(res[k])]

SkillDelims == {U_IDEO_COMMA, ";", ",", "/", "|"}

\* re.split(r"[U+3001;,/|]", s)
RECURSIVE SplitDelims(_)
SplitDelims(s) ==
  IF \A k \in 1..Len(s) : s[k] \notin SkillDelims
    THEN <<s>>
    ELSE LET p == CHOOSE k \in 1..Len(s) :
                    /\ s[k] \in SkillDelims
                    /\ \A j \in 1..(k - 1) : s[j] \notin SkillDelims
         IN  <<SubSeq(s, 1, p - 1)>> \o SplitDelims(Drop(s, p))

\* the skills one line of the skills bucket adds to the set
SkillsOfLine(l) ==
  IF Strip(l) = <<>> THEN {}
  ELSE IF BulletPrefixLen(l) > 0
    THEN IF Strip(Drop(l, BulletPrefixLen(l))) # <<>>
           THEN {Norm(Strip(Drop(l, BulletPrefixLen(l))))}
           ELSE {}
  ELSE {Norm(Strip(p)) : p \in {q \in Range(SplitDelims(l)) : Strip(q) # <<>>}}

\* the set _parse_skills builds and filters
SkillSet(ls) == UNION {SkillsOfLine(ls[k]) : k \in 1..Len(ls)} \ {<<>>}

\* the orders in which a list comprehension may walk a set
Orderings(S) ==
  {f \in [1..Cardinality(S) -> S] : \A x \in S : \E k \in 1..Cardinality(S) : f[k] = x}

\* the certifications of heuristic_parse
RECURSIVE CertsOf(_)
CertsOf(ls) ==
  IF ls = <<>> THEN <<>>
  ELSE IF Strip(ls[1]) # <<>>
    THEN <<Norm(Drop(ls[1], BulletPrefixLen(ls[1])))>> \o CertsOf(Tail(ls))
    ELSE CertsOf(Tail(ls))

\* WorkExperience with one entry for each bullet
WorkExperiencePerBullet(exp_bullets) ==
  [j \in 1..Len(exp_bullets) |->
     [job_title |-> <<>>, company |-> <<>>, start_date |-> <<>>,
      end_date |-> <<>>, achievements |-> <<exp_bullets[j]>>]]

\* heuristic_parse: the experience entries from the bullets collected
WorkExperience(exp_bullets) ==
  IF exp_bullets # <<>>
    THEN <<[job_title |-> <<>>, company |-> <<>>, start_date |-> <<>>,
            end_date |-> <<>>, achievements |-> exp_bullets]>>
    ELSE <<>>

\* ------------------------------------------------------------------------
\* Structured records and the renderer
\* ------------------------------------------------------------------------
\* A value of a parsed record (what json.loads or heuristic_parse yields) is
\* None, a str, a list or a dict; a dict is a function from its keys, and a
\* key it lacks is outside its domain.

JNull == [k |-> "null"]

JStr(s) == [k |-> "str", v |-> s]

JList(l) == [k |-> "list", v |-> l]

JDict(d) == [k |-> "dict", v |-> d]

\* d.get(key)
Get(d, key) == IF key \in DOMAIN d THEN d[key] ELSE JNull

\* d.get(key, default)
GetOr(d, key, default) == IF key \in DOMAIN d THEN d[key] ELSE default

\* bool(x)
Truthy(x) ==
  IF x.k = "null" THEN FALSE
  ELSE IF x.k = "dict" THEN DOMAIN x.v # {}
  ELSE x.v # <<>>

\* the items a for loop over x visits: the elements of a list, the characters
\* of a str
Items(x) ==
  IF x.k = "list" THEN x.v ELSE [j \in 1..Len(x.v) |-> JStr(<<x.v[j]>>)]

\* for ... in x raises TypeError
NotIterable(x) == x.k = "null"

\* the values among xs that [p for p in xs if p] keeps
RECURSIVE TruthyOnes(_)
TruthyOnes(xs) ==
  IF xs = <<>> THEN <<>>
  ELSE IF Truthy(xs[1])
    THEN <<xs[1]>> \o TruthyOnes(Tail(xs))
    ELSE TruthyOnes(Tail(xs))

AllStr(xs) == \A j \in 1..Len(xs) : xs[j].k = "str"

StrValues(xs) == [j \in 1..Len(xs) |-> xs[j].v]

EmDash == <<" ", U_EM_DASH, " ">>

S_SUMMARY == <<"S","U","M","M","A","R","Y">>

S_SKILLS == <<"S","K","I","L","L","S">>

S_EDUCATION == <<"E","D","U","C","A","T","I","O","N">>

S_None == <<"N","o","n","e">>

\* the parts of one education entry that are rendered
EduParts(edu) ==
  TruthyOnes(<<Get(edu.v, "degree"), Get(edu.v, "institution"), Get(edu.v, "year")>>)

\* the education loop of render_resume_text raises on entry edu
EduRaises(edu) == edu.k # "dict" \/ ~AllStr(EduParts(edu))

\* the lines the education loop of render_resume_text adds for entry edu
EduLinesOf(edu) ==
  LET pretty == Join(EmDash, StrValues(EduParts(edu)))
  IN  IF pretty # <<>> THEN <<<<>>, S_EDUCATION, pretty>> ELSE <<>>

\* the parts of the header of one work entry
HeaderParts(exp) == TruthyOnes(<<Get(exp.v, "job_title"), Get(exp.v, "company")>>)

\* the work loop of render_resume_text raises on entry exp
WorkRaises(exp) ==
  \/ exp.k # "dict"
  \/ ~AllStr(HeaderParts(exp))
  \/ NotIterable(GetOr(exp.v, "achievements", JList(<<>>)))

\* f"U+2022 {a}" for an achievement that is a str or None
BulletLine(a) == <<U_BULLET, " ">> \o (IF a.k = "str" THEN a.v ELSE S_None)

\* the lines the work loop of render_resume_text adds for entry exp
WorkLinesOf(exp) ==
  LET header == Join(EmDash, StrValues(HeaderParts(exp)))
      achs == Items(GetOr(exp.v, "achievements", JList(<<>>)))
  IN  (IF header # <<>> THEN <<<<>>, header>> ELSE <<>>)
      \o [j \in 1..Len(achs) |-> BulletLine(achs[j])]

\* the concatenation of the sequences of a sequence
RECURSIVE Flatten(_)
Flatten(xss) == IF xss = <<>> THEN <<>> ELSE xss[1] \o Flatten(Tail(xss))

\* render_resume_text: whether it raises, and the text it returns
RenderResumeText(p) ==
  LET the_name == Get(p, "full_name")
      the_contact == Get(p, "contact_info")
      the_summary == Get(p, "summary")
      the_skills == Get(p, "skills")
      the_education == GetOr(p, "education", JList(<<>>))
      the_work == GetOr(p, "work_experience", JList(<<>>))
      raised ==
        \/ Truthy(the_name) /\ the_name.k # "str"
        \/ Truthy(the_contact) /\ the_contact.k # "str"
        \/ Truthy(the_summary) /\ the_summary.k # "str"
        \/ Truthy(the_skills) /\ ~AllStr(Items(the_skills))
        \/ NotIterable(the_education)
        \/ NotIterable(the_work)
        \/ ~NotIterable(the_education)
             /\ \E j \in 1..Len(Items(the_education)) : EduRaises(Items(the_education)[j])
        \/ ~NotIterable(the_work)
             /\ \E j \in 1..Len(Items(the_work)) : WorkRaises(Items(the_work)[j])
      the_lines ==
        (IF Truthy(the_name) THEN <<the_name.v>> ELSE <<>>)
        \o (IF Truthy(the_contact) THEN <<the_contact.v>> ELSE <<>>)
        \o (IF Truthy(the_summary) THEN <<<<>>, S_SUMMARY, the_summary.v>> ELSE <<>>)
        \o (IF Truthy(the_skills)
              THEN <<<<>>, S_SKILLS, Join(<<",", " ">>, StrValues(Items(the_skills)))>>
              ELSE <<>>)
        \o Flatten([j \in 1..Len(Items(the_education)) |-> EduLinesOf(Items(the_education)[j])])
        \o Flatten([j \in 1..Len(Items(the_work)) |-> WorkLinesOf(Items(the_work)[j])])
  IN  IF raised
        THEN [raised |-> TRUE, text |-> <<>>]
        ELSE [raised |-> FALSE, text |-> Join(<<"\n">>, the_lines)]

\* the dict heuristic_parse returns
ParsedRecord(n, c, s, w, e, sk, ce) ==
  [full_name |-> JStr(n),
   contact_info |-> JStr(c),
   summary |-> JStr(s),
   work_experience |->
     JList([j \in 1..Len(w) |->
       JDict([job_title |-> JStr(w[j].job_title),
              company |-> JStr(w[j].company),
              start_date |-> JStr(w[j].start_date),
              end_date |-> JStr(w[j].end_date),
              achievements |->
                JList([h \in 1..Len(w[j].achievements) |-> JStr(w[j].achievements[h])])])]),
   education |->
     JList([j \in 1..Len(e) |->
       JDict([institution |-> JStr(e[j].institution),
              degree |-> JStr(e[j].degree),
              year |-> JStr(e[j].year)])]),
   skills |-> JList([j \in 1..Len(sk) |-> JStr(sk[j])]),
   certifications |-> JList([j \in 1..Len(ce) |-> JStr(ce[j])])]

\* ------------------------------------------------------------------------
\* The classifier applied to single lines
\* ------------------------------------------------------------------------

\* runs of colons and spaces put before and after a candidate heading
Affixes == UNION {[1..n -> {":", " "}] : n \in 0..MaxAffix}

DetectBodies == {
    <<>>,
    <<"s","k","i","l","l","s">>,
    <<"c","e","r","t","s">>,
    <<"W","o","r","k"," ","E","x","p","e","r","i","e","n","c","e">>,
    <<"K","e","y"," "," ","S","k","i","l","l","s">>,
    <<"E","D","U","C","A","T","I","O","N">>,
    <<"O","B","J","E","C","T","I","V","E","\t">>,
    <<"M","Y"," ","S","K","I","L","L","S">>,
    <<"E","D","U","C","A","T","I","O","N"," ","A","N","D"," ","S","K","I","L","L","S">>,
    <<"C","A","R","E","E","R"," ","P","R","O","F","I","L","E">>,
    <<"L","I","C","E","N","C","E"," ","P","R","O","J","E","C","T">>,
    <<"M","y"," ","S","k","i","l","l","s">>,
    <<"W","O","R","K">>,
    <<"B","u","i","l","t"," ","a","p","p","s">>,
    \* 39 characters
    <<"P","R","O","F","E","S","S","I","O","N","A","L"," ","C","A","R","E","E","R"," ",
      "A","N","D"," ","E","M","P","L","O","Y","M","E","N","T"," ","P","A","T","H">> }

DetectLines == {a \o b \o c : a \in Affixes, b \in DetectBodies, c \in Affixes}

\* the variables a run does not use keep these values
IdleDetect == line = <<>> /\ sec = None

IdleWalk == raws = <<>> /\ i = 0 /\ current = None /\ sections = EmptySections

IdleFields ==
  /\ full_name = <<>>
  /\ contact_info = <<>>
  /\ summary = <<>>
  /\ work_experience = <<>>
  /\ education = <<>>
  /\ skills = <<>>
  /\ certs = <<>>

IdleRender == parsed = <<>> /\ resume_text = [raised |-> FALSE, text |-> <<>>]

IdleEdu == lines = <<>> /\ buf = <<>> /\ result = <<>>

IdleHandler == api_key = FALSE /\ content = JNull /\ response = JNull

InitDetect ==
  /\ pc = "detect"
  /\ line \in DetectLines
  /\ sec = None
  /\ text = <<>>
  /\ IdleWalk /\ IdleFields /\ IdleRender /\ IdleEdu /\ IdleHandler

\* sec = _detect_section(line)
Detect ==
  /\ pc = "detect"
  /\ sec' = DetectSection(line)
  /\ pc' = "detected"
  /\ UNCHANGED <<line, text, walk_vars, field_vars, render_vars, edu_vars, handler_vars>>

NextDetect == Detect

SpecDetect == InitDetect /\ [][NextDetect]_vars

\* ------------------------------------------------------------------------
\* heuristic_parse, one statement at a time, and render_resume_text on its record
\* ------------------------------------------------------------------------

\* the lines the texts of Spec are made of
SegmentPool == {
    <<"J","a","n","e"," ","D","o","e">>,
    <<>>,
    <<"E","X","P","E","R","I","E","N","C","E">>,
    <<"S","u","m","m","a","r","y",":">>,
    <<"-"," ","L","e","d"," "," ","t","e","a","m"," ">>,
    <<"*"," ","A","W","S","\r">>,
    <<"-"," "," ">> }

\* the lines the texts of SpecFields are made of
FieldPool == {
    <<"J","a","n","e"," ","D","o","e">>,
    <<>>,
    <<"a","@","b",".","i","o"," ","5","5","5","-","0","1","0","0">>,
    <<"M","Y"," ","C","E","R","T","S"," ">>,
    <<"*"," ","A","W","S">>,
    <<"S","K","I","L","L","S">>,
    <<"G","o",","," ","S","Q","L">>,
    <<"E","D","U","C","A","T","I","O","N">>,
    <<"M","I","T"," ","2","0","1","0">> }

\* the texts of at most MaxLines lines of pool, joined by line breaks
TextsOver(pool) ==
  {Join(<<"\n">>, ls) : ls \in UNION {[1..n -> pool] : n \in 0..MaxLines}}

InitHeuristic(pool) ==
  /\ pc = "guess_name"
  /\ text \in TextsOver(pool)
  /\ IdleDetect /\ IdleWalk /\ IdleFields /\ IdleRender /\ IdleEdu /\ IdleHandler

Init == InitHeuristic(SegmentPool)

InitFields == InitHeuristic(FieldPool)

\* name = _guess_name(text)
GuessNameStep ==
  /\ pc = "guess_name"
  /\ full_name' = GuessName(text)
  /\ pc' = "extract_contacts"
  /\ UNCHANGED <<line, sec, text, walk_vars, contact_info, summary, work_experience,
                 education, skills, certs, render_vars, edu_vars, handler_vars>>

\* contact = _extract_contacts_from_header(text)
ExtractContactsStep ==
  /\ pc = "extract_contacts"
  /\ contact_info' = ExtractContacts(text)
  /\ pc' = "parse_sections"
  /\ UNCHANGED <<line, sec, text, walk_vars, full_name, summary, work_experience,
                 education, skills, certs, render_vars, edu_vars, handler_vars>>

\* _parse_sections: sections and current are set up and the text is split
BeginSections ==
  /\ pc = "parse_sections"
  /\ raws' = SectionLines(text)
  /\ i' = 1
  /\ current' = None
  /\ sections' = EmptySections
  /\ pc' = "walk"
  /\ UNCHANGED <<line, sec, text, field_vars, render_vars, edu_vars, handler_vars>>

\* _parse_sections: one iteration of the loop
WalkLine ==
  /\ pc = "walk"
  /\ i <= Len(raws)
  /\ LET st == SectionStep([current |-> current, sections |-> sections], raws[i])
     IN  /\ current' = st.current
         /\ sections' = st.sections
  /\ line' = RStrip(raws[i])
  /\ sec' = IF Strip(RStrip(raws[i])) = <<>> THEN None ELSE DetectSection(RStrip(raws[i]))
  /\ i' = i + 1
  /\ UNCHANGED <<pc, raws, text, field_vars, render_vars, edu_vars, handler_vars>>

\* heuristic_parse: the summary, once _parse_sections has returned
Summarize ==
  /\ pc = "walk"
  /\ i > Len(raws)
  /\ summary' = SummaryOf(sections["summary"])
  /\ pc' = "experience"
  /\ UNCHANGED <<line, sec, text, walk_vars, full_name, contact_info, work_experience,
                 education, skills, certs, render_vars, edu_vars, handler_vars>>

\* heuristic_parse: exp_bullets and work_experience
Experience ==
  /\ pc = "experience"
  /\ work_experience' = WorkExperience(CollectBullets(sections["experience"]))
  /\ pc' = "education"
  /\ UNCHANGED <<line, sec, text, walk_vars, full_name, contact_info, summary,
                 education, skills, certs, render_vars, edu_vars, handler_vars>>

\* education = _parse_education(sections["education"])
Education ==
  /\ pc = "education"
  /\ education' = ParseEducation(sections["education"])
  /\ pc' = "skills"
  /\ UNCHANGED <<line, sec, text, walk_vars, full_name, contact_info, summary,
                 work_experience, skills, certs, render_vars, edu_vars, handler_vars>>

\* skills = _parse_skills(sections["skills"]): a list in the order the set is walked
Skills ==
  /\ pc = "skills"
  /\ skills' \in Orderings(SkillSet(sections["skills"]))
  /\ pc' = "certifications"
  /\ UNCHANGED <<line, sec, text, walk_vars, full_name, contact_info, summary,
                 work_experience, education, certs, render_vars, edu_vars, handler_vars>>

\* heuristic_parse: certs
Certifications ==
  /\ pc = "certifications"
  /\ certs' = CertsOf(sections["certifications"])
  /\ pc' = "return"
  /\ UNCHANGED <<line, sec, text, walk_vars, full_name, contact_info, summary,
                 work_experience, education, skills, render_vars, edu_vars, handler_vars>>

\* heuristic_parse returns its dict
Return ==
  /\ pc = "return"
  /\ parsed' = ParsedRecord(full_name, contact_info, summary, work_experience,
                            education, skills, certs)
  /\ pc' = "render"
  /\ UNCHANGED <<line, sec, text, walk_vars, field_vars, resume_text, edu_vars, handler_vars>>

\* render_resume_text(parsed)
Render ==
  /\ pc = "render"
  /\ resume_text' = RenderResumeText(parsed)
  /\ pc' = IF RenderResumeText(parsed).raised THEN "raised" ELSE "rendered"
  /\ UNCHANGED <<line, sec, text, walk_vars, field_vars, parsed, edu_vars, handler_vars>>

Next ==
  \/ GuessNameStep
  \/ ExtractContactsStep
  \/ BeginSections
  \/ WalkLine
  \/ Summarize
  \/ Experience
  \/ Education
  \/ Skills
  \/ Certifications
  \/ Return
  \/ Render

Spec == Init /\ [][Next]_vars

SpecFields == InitFields /\ [][Next]_vars

\* the characters of the texts of SpecBlank: whitespace, line breaks and a letter
BlankChars == {" ", "\t", "\n", "\r", "x"}

\* heuristic_parse on every text of at most MaxBlankLen characters of BlankChars
InitBlank ==
  /\ pc = "guess_name"
  /\ text \in UNION {[1..n -> BlankChars] : n \in 0..MaxBlankLen}
  /\ IdleDetect /\ IdleWalk /\ IdleFields /\ IdleRender /\ IdleEdu /\ IdleHandler

SpecBlank == InitBlank /\ [][Next]_vars

\* ------------------------------------------------------------------------
\* _parse_education, one iteration at a time
\* ------------------------------------------------------------------------

\* the lines an education bucket is made of: blank lines as _parse_sections
\* stores them, and right-stripped lines
EduPool == {
    <<>>,
    <<"M","I","T"," ","2","0","1","0">>,
    <<"-"," ","B","S","c"," "," ","C","S">>,
    <<"Y","a","l","e">> }

InitEducation ==
  /\ pc = "parse_education"
  /\ lines \in UNION {[1..n -> EduPool] : n \in 0..MaxEduLines}
  /\ buf = <<>>
  /\ result = <<>>
  /\ i = 1
  /\ raws = <<>> /\ current = None /\ sections = EmptySections
  /\ text = <<>>
  /\ IdleDetect /\ IdleFields /\ IdleRender /\ IdleHandler

\* _parse_education: one iteration of the first loop
EduLine ==
  /\ pc = "parse_education"
  /\ i <= Len(lines)
  /\ LET st == EduStep([result |-> result, buf |-> buf], lines[i])
     IN  /\ result' = st.result
         /\ buf' = st.buf
  /\ i' = i + 1
  /\ UNCHANGED <<pc, line, sec, text, raws, current, sections, field_vars, render_vars,
                 lines, handler_vars>>

\* _parse_education: the last chunk is flushed, the entries enriched and returned
EduReturn ==
  /\ pc = "parse_education"
  /\ i > Len(lines)
  /\ LET st == EduFlush([result |-> result, buf |-> buf])
     IN  /\ result' = [k \in 1..Len(st.result) |-> Enrich(st.result[k])]
         /\ buf' = st.buf
  /\ pc' = "education_done"
  /\ UNCHANGED <<line, sec, text, walk_vars, field_vars, render_vars, lines, handler_vars>>

NextEducation == EduLine \/ EduReturn

SpecEducation == InitEducation /\ [][NextEducation]_vars

\* ------------------------------------------------------------------------
\* render_resume_text on records supplied from outside
\* ------------------------------------------------------------------------

\* a key the supplied dict does not have
Absent == [k |-> "absent"]

\* the dict of the fields that are given
Present(r) == [f \in {g \in DOMAIN r : r[g] # Absent} |-> r[f]]

S_BSc == <<"B","S","c">>

S_MIT == <<"M","I","T">>

S_2010 == <<"2","0","1","0">>

S_Dev == <<"D","e","v">>

S_Acme == <<"A","c","m","e">>

S_Led == <<"L","e","d">>

S_Al == <<"A","l">>

S_Mail == <<"a","@","b",".","i","o">>

S_Go == <<"G","o">>

\* a str field of an entry: left out, empty or set
EntryStr(s) == {Absent, JStr(<<>>), JStr(s)}

\* a field of the record: left out, None, the empty value or set
RecordField(empty, full) == {Absent, JNull, empty} \cup full

EduEntries ==
  {JDict(Present(r)) :
     r \in [degree : EntryStr(S_BSc), institution : EntryStr(S_MIT), year : EntryStr(S_2010)]}

WorkEntries ==
  {JDict(Present(r)) :
     r \in [job_title : EntryStr(S_Dev), company : EntryStr(S_Acme),
            achievements : {Absent, JList(<<>>), JList(<<JStr(S_Led)>>)}]}

SuppliedRecords ==
  {Present(r) :
     r \in [full_name : RecordField(JStr(<<>>), {JStr(S_Al)}),
            contact_info : RecordField(JStr(<<>>), {JStr(S_Mail)}),
            summary : RecordField(JStr(<<>>), {JStr(S_Dev)}),
            skills : RecordField(JList(<<>>), {JList(<<JStr(S_Go)>>)}),
            education : RecordField(JList(<<>>), {JList(<<e>>) : e \in EduEntries}),
            work_experience : RecordField(JList(<<>>), {JList(<<e>>) : e \in WorkEntries})]}

InitRender ==
  /\ pc = "render"
  /\ parsed \in SuppliedRecords
  /\ resume_text = [raised |-> FALSE, text |-> <<>>]
  /\ text = <<>>
  /\ IdleDetect /\ IdleWalk /\ IdleFields /\ IdleEdu /\ IdleHandler

NextRender == Render

SpecRender == InitRender /\ [][NextRender]_vars

\* ------------------------------------------------------------------------
\* The /resume/parse handler
\* ------------------------------------------------------------------------

\* heuristic_parse as a whole, the skills listed in the order sk
HeuristicParse(txt, sk) ==
  LET secs == ParseSections(txt)
  IN  ParsedRecord(GuessName(txt),
                   ExtractContacts(txt),
                   SummaryOf(secs["summary"]),
                   WorkExperience(CollectBullets(secs["experience"])),
                   ParseEducation(secs["education"]),
                   sk,
                   CertsOf(secs["certifications"]))

\* the records heuristic_parse may return for txt
HeuristicResults(txt) ==
  {HeuristicParse(txt, sk) : sk \in Orderings(SkillSet(ParseSections(txt)["skills"]))}

\* the characters of what the text-generation service may answer
JsonChars == {"{", "}", "1", "t", " "}

Contents == UNION {[1..n -> JsonChars] : n \in 0..MaxContent}

\* json.loads on a str over JsonChars: such a text is a number when it is
\* digits only, the empty object when it is a pair of braces around
\* whitespace, both within optional whitespace, and not JSON otherwise
JsonLoads(s) ==
  LET t == Strip(s)
  IN  IF t # <<>> /\ \A n \in 1..Len(t) : t[n] \in Digits
        THEN [ok |-> TRUE, value |-> [k |-> "int", v |-> t]]
      ELSE IF /\ Len(t) >= 2
              /\ t[1] = "{"
              /\ t[Len(t)] = "}"
              /\ \A n \in 2..(Len(t) - 1) : IsSpace(t[n])
        THEN [ok |-> TRUE, value |-> JDict(<<>>)]
      ELSE [ok |-> FALSE, value |-> JNull]

\* re.search(r"\{[\s\S]*\}$", s.strip()): group(0), the empty str when nothing matches
TrailingObject(s) ==
  LET t == Strip(s)
      opens == {n \in 1..(Len(t) - 1) : t[n] = "{"}
  IN  IF opens # {} /\ t[Len(t)] = "}"
        THEN SubSeq(t, CHOOSE n \in opens : \A m \in opens : n <= m, Len(t))
        ELSE <<>>

\* the documents uploaded to the handler
UploadedTexts == {
    <<>>,
    <<"J","a","n","e"," ","D","o","e">>,
    <<"J","a","n","e"," ","D","o","e","\n","S","K","I","L","L","S","\n","G","o",","," ","S","Q","L">> }

InitParse ==
  /\ pc = "parse_resume"
  /\ text \in UploadedTexts
  /\ api_key \in BOOLEAN
  /\ content = JNull
  /\ response = JNull
  /\ IdleDetect /\ IdleWalk /\ IdleFields /\ IdleRender /\ IdleEdu

\* parse_resume: OPENAI_API_KEY is not set, the call of the service is skipped
NoApiKey ==
  /\ pc = "parse_resume"
  /\ ~api_key
  /\ pc' = "fallback"
  /\ UNCHANGED <<line, sec, text, walk_vars, field_vars, render_vars, edu_vars, handler_vars>>

\* content = await gpt_chat(...): None when the request raises (an error, a
\* timeout), the status is not 200 or the body is not the expected JSON, else
\* the content of the first choice
GptChat ==
  /\ pc = "parse_resume"
  /\ api_key
  /\ content' \in {JNull} \cup {JStr(c) : c \in Contents}
  /\ pc' = "check_content"
  /\ UNCHANGED <<line, sec, text, walk_vars, field_vars, render_vars, edu_vars, api_key, response>>

\* parse_resume: the content is parsed, whole or from its trailing object
UseContent ==
  /\ pc = "check_content"
  /\ IF ~Truthy(content)
       THEN pc' = "fallback" /\ UNCHANGED response
     ELSE IF JsonLoads(content.v).ok
       THEN pc' = "returned_parsed" /\ response' = JsonLoads(content.v).value
     ELSE IF TrailingObject(content.v) # <<>> /\ JsonLoads(TrailingObject(content.v)).ok
       THEN pc' = "returned_salvaged" /\ response' = JsonLoads(TrailingObject(content.v)).value
     ELSE pc' = "fallback" /\ UNCHANGED response
  /\ UNCHANGED <<line, sec, text, walk_vars, field_vars, render_vars, edu_vars, api_key, content>>

\* return {"parsed": heuristic_parse(text)}
Fallback ==
  /\ pc = "fallback"
  /\ response' \in {JDict(r) : r \in HeuristicResults(text)}
  /\ pc' = "returned_heuristic"
  /\ UNCHANGED <<line, sec, text, walk_vars, field_vars, render_vars, edu_vars, api_key, content>>

\* response_model=ParseResult: parsed must be a dict, or the request fails
ValidateResponse ==
  /\ pc \in {"returned_parsed", "returned_salvaged", "returned_heuristic"}
  /\ pc' = IF response.k = "dict" THEN "responded" ELSE "server_error"
  /\ UNCHANGED <<line, sec, text, walk_vars, field_vars, render_vars, edu_vars, handler_vars>>

NextParse == NoApiKey \/ GptChat \/ UseContent \/ Fallback \/ ValidateResponse

SpecParse == InitParse /\ [][NextParse]_vars

\* ------------------------------------------------------------------------
\* C1
\* ------------------------------------------------------------------------

\* _parse_sections has walked every line
WalkDone == pc = "walk" /\ i > Len(raws)

\* the j-th line of the walk, as the loop sees it
LineAt(j) == RStrip(raws[j])

IsHeading(j) == DetectSection(LineAt(j)) # None

IsContent(j) == Strip(raws[j]) # <<>> /\ ~IsHeading(j)

\* the bucket of the most recent heading before line j, summary when there is none
Owner(j) ==
  LET hs == {h \in 1..(j - 1) : IsHeading(h)}
  IN  IF hs = {} THEN "summary"
      ELSE DetectSection(LineAt(CHOOSE h \in hs : \A g \in hs : g <= h))

\* the positions 1..n that satisfy Test, in increasing order
Positions(n, Test(_)) == SelectSeq([j \in 1..n |-> j], Test)

\* the content lines that belong to bucket k, in source order
Expected(k) ==
  LET at == Positions(Len(raws), LAMBDA j : IsContent(j) /\ Owner(j) = k)
  IN  [n \in 1..Len(at) |-> LineAt(at[n])]

NonBlank(ls) == SelectSeq(ls, LAMBDA l : l # <<>>)

\* C1: once _parse_sections has walked the lines, no bucket holds a line that
\* _detect_section classifies as a heading, and the non-blank lines of every
\* bucket are exactly the non-blank, non-heading lines whose most recent
\* preceding heading names that bucket (the summary bucket when no heading
\* precedes them), in source order.
C1_Buckets ==
  WalkDone =>
    \A k \in BucketKeys :
      /\ \A n \in 1..Len(sections[k]) : DetectSection(sections[k][n]) = None
      /\ NonBlank(sections[k]) = Expected(k)

\* a walk with content before any heading, two different headings and content
\* under the later one
C1_Witness ==
  /\ WalkDone
  /\ \E a, b, c, d \in 1..Len(raws) :
       /\ a < b /\ b < c /\ c < d
       /\ IsContent(a) /\ IsHeading(b) /\ IsHeading(c) /\ IsContent(d)
       /\ Owner(c) # Owner(d)

\* ------------------------------------------------------------------------
\* C2
\* ------------------------------------------------------------------------

HandlerReturned == pc \in {"returned_parsed", "returned_salvaged", "returned_heuristic"}

\* the service gave content that parses as JSON, whole or from its trailing object
ServiceResultValid ==
  /\ api_key
  /\ Truthy(content)
  /\ \/ JsonLoads(content.v).ok
     \/ TrailingObject(content.v) # <<>> /\ JsonLoads(TrailingObject(content.v)).ok

ServiceResult ==
  IF JsonLoads(content.v).ok
    THEN JsonLoads(content.v).value
    ELSE JsonLoads(TrailingObject(content.v)).value

\* C2: when the handler has returned, the response is the result of
\* heuristic_parse, returned verbatim, exactly when the service is absent, has
\* failed or has answered with content that does not parse; when the service
\* has answered with a valid result the response is that result and
\* heuristic_parse has not run; and the request ends with a parsed record,
\* never with an error.
C2_FallbackExactlyWhenUnusable ==
  /\ HandlerReturned =>
       /\ pc = "returned_heuristic" <=> ~ServiceResultValid
       /\ pc = "returned_heuristic" => response \in {JDict(r) : r \in HeuristicResults(text)}
       /\ ServiceResultValid => response = ServiceResult
  /\ pc # "server_error"

\* ------------------------------------------------------------------------
\* C3
\* ------------------------------------------------------------------------

\* heuristic_parse has returned its record
Returned == pc = "render"

\* where the bullet marker of a bullet-format line stands: after leading
\* whitespace only, one of - * U+2022, followed by at least one space
MarkerAt(l) ==
  {m \in 1..(Len(l) - 1) :
     /\ \A j \in 1..(m - 1) : IsSpace(l[j])
     /\ l[m] \in {"-", "*", U_BULLET}
     /\ IsSpace(l[m + 1])}

\* the normalized content of a bullet-format line
BulletText(l) == Norm(SubSeq(l, (CHOOSE m \in MarkerAt(l) : TRUE) + 1, Len(l)))

\* C3: the work_experience heuristic_parse returns has at most one entry; it
\* has one exactly when the experience bucket holds a bullet-format line, and
\* then the entry has an empty job_title, company, start_date and end_date and
\* its achievements are the normalized contents of the bullet lines of the
\* experience bucket in source order.
C3_WorkExperience ==
  Returned =>
    LET bl == SelectSeq(sections["experience"], LAMBDA l : MarkerAt(l) # {})
        w == parsed["work_experience"].v
    IN  /\ Len(w) <= 1
        /\ Len(w) = 1 <=> bl # <<>>
        /\ Len(w) = 1 =>
             /\ w[1].v["job_title"] = JStr(<<>>)
             /\ w[1].v["company"] = JStr(<<>>)
             /\ w[1].v["start_date"] = JStr(<<>>)
             /\ w[1].v["end_date"] = JStr(<<>>)
             /\ w[1].v["achievements"] = JList([n \in 1..Len(bl) |-> JStr(BulletText(bl[n]))])

\* a record with one work entry of two different achievements, from an
\* experience bucket that also holds a line that is no bullet
C3_Witness ==
  /\ Returned
  /\ Len(parsed["work_experience"].v) = 1
  /\ Len(parsed["work_experience"].v[1].v["achievements"].v) = 2
  /\ parsed["work_experience"].v[1].v["achievements"].v[1]
       # parsed["work_experience"].v[1].v["achievements"].v[2]
  /\ \E n \in 1..Len(sections["experience"]) :
       /\ sections["experience"][n] # <<>>
       /\ MarkerAt(sections["experience"][n]) = {}

\* ------------------------------------------------------------------------
\* C4
\* ------------------------------------------------------------------------

\* the positions of the non-blank lines of the walk
NonBlankAt == {j \in 1..Len(raws) : Strip(raws[j]) # <<>>}

\* C4: the first non-empty line of the document is not appended to any bucket
\* by _parse_sections: when the walk has just passed it, every bucket is empty.
C4_FirstLineExcluded ==
  (/\ pc = "walk"
   /\ NonBlankAt # {}
   /\ i = (CHOOSE j \in NonBlankAt : \A h \in NonBlankAt : j <= h) + 1)
    => sections = EmptySections

\* ------------------------------------------------------------------------
\* C5
\* ------------------------------------------------------------------------

\* the summary material: the lines, blank ones included, under a summary
\* heading or before any heading, in source order
SummaryMaterial ==
  LET at == Positions(Len(raws), LAMBDA j : ~IsHeading(j) /\ Owner(j) = "summary")
  IN  [n \in 1..Len(at) |-> LineAt(at[n])]

IsProse(l) == l # <<>> /\ MarkerAt(l) = {}

\* the normalized prose lines of ls up to the first blank line that follows
\* the first prose line
LeadingProse(ls) ==
  LET prose == {n \in 1..Len(ls) : IsProse(ls[n])}
      first == CHOOSE n \in prose : \A m \in prose : n <= m
      blanks == {n \in 1..Len(ls) : n > first /\ ls[n] = <<>>}
      stop == IF blanks = {} THEN Len(ls) + 1
              ELSE CHOOSE n \in blanks : \A m \in blanks : n <= m
      at == Positions(Len(ls), LAMBDA n : n < stop /\ IsProse(ls[n]))
  IN  IF prose = {} THEN <<>> ELSE [n \in 1..Len(at) |-> Norm(ls[at[n]])]

\* C5: the summary heuristic_parse returns is built from the leading prose
\* lines of the summary material only, those before the first blank line that
\* follows the first collected line: it is the normalized, space-joined,
\* truncated text of some first few of them, and of no other line.
C5_SummaryLeadingParagraph ==
  Returned =>
    \E n \in 0..Len(LeadingProse(SummaryMaterial)) :
      parsed["summary"] =
        JStr(Take(Norm(Join(<<" ">>, SubSeq(LeadingProse(SummaryMaterial), 1, n))), 600))

\* ------------------------------------------------------------------------
\* C6
\* ------------------------------------------------------------------------

\* render_resume_text has returned the text of the record of heuristic_parse
Rendered == pc = "rendered"

Shown(x) == x.v = <<>> \/ Contains(resume_text.text, x.v)

\* C6: the text render_resume_text returns for a record of heuristic_parse
\* contains every non-empty field of the record: the name, the contact info,
\* the summary, every skill, every institution and year, every achievement and
\* every certification.
C6_RenderKeepsEveryField ==
  Rendered =>
    /\ Shown(parsed["full_name"])
    /\ Shown(parsed["contact_info"])
    /\ Shown(parsed["summary"])
    /\ \A n \in 1..Len(parsed["skills"].v) : Shown(parsed["skills"].v[n])
    /\ \A n \in 1..Len(parsed["education"].v) :
         /\ Shown(parsed["education"].v[n].v["institution"])
         /\ Shown(parsed["education"].v[n].v["year"])
    /\ \A n \in 1..Len(parsed["work_experience"].v) :
         \A m \in 1..Len(parsed["work_experience"].v[n].v["achievements"].v) :
           Shown(parsed["work_experience"].v[n].v["achievements"].v[m])
    /\ \A n \in 1..Len(parsed["certifications"].v) : Shown(parsed["certifications"].v[n])

\* ------------------------------------------------------------------------
\* C7
\* ------------------------------------------------------------------------

\* the lines of the text render_resume_text returned
RenderedLines == SplitNL(resume_text.text)

HasLine(l) == \E n \in 1..Len(RenderedLines) : RenderedLines[n] = l

\* a separator at an end of a line, or two in a row
StraySeparator(l) ==
  \/ IsPrefix(EmDash, l)
  \/ Len(l) >= 3 /\ SubSeq(l, Len(l) - 2, Len(l)) = EmDash
  \/ Contains(l, EmDash \o EmDash)

\* C7: render_resume_text does not raise for a record whose fields are absent,
\* None, empty strings or empty sequences, entries with absent or empty fields
\* included; the SUMMARY, SKILLS and EDUCATION blocks are in the text only when
\* their content is not empty, and no line has a separator but between two parts.
C7_RenderTolerant ==
  /\ pc # "raised"
  /\ pc = "rendered" =>
       /\ HasLine(S_SUMMARY) => Truthy(Get(parsed, "summary"))
       /\ HasLine(S_SKILLS) => Truthy(Get(parsed, "skills"))
       /\ HasLine(S_EDUCATION) =>
            \E n \in 1..Len(Items(GetOr(parsed, "education", JList(<<>>)))) :
              EduParts(Items(GetOr(parsed, "education", JList(<<>>)))[n]) # <<>>
       /\ \A n \in 1..Len(RenderedLines) : ~StraySeparator(RenderedLines[n])

\* ------------------------------------------------------------------------
\* C8
\* ------------------------------------------------------------------------

EducationDone == pc = "education_done"

\* where the maximal runs of non-blank lines of the education bucket start
RunStarts ==
  Positions(Len(lines),
            LAMBDA n : lines[n] # <<>> /\ (n = 1 \/ lines[n - 1] = <<>>))

\* the lines of the run that starts at position n
RunFrom(n) ==
  LET ends == {m \in n..Len(lines) : \A h \in n..m : lines[h] # <<>>}
  IN  SubSeq(lines, n, CHOOSE m \in ends : \A h \in ends : h <= m)

\* C8: _parse_education returns one entry for each maximal run of non-blank
\* lines of the bucket, in source order (the n-th entry starts with the first
\* line of the n-th run), whatever blank lines surround the runs, and every
\* entry has an empty degree.
C8_OneEntryPerRun ==
  EducationDone =>
    /\ Len(result) = Len(RunStarts)
    /\ \A n \in 1..Len(result) :
         /\ result[n].degree = <<>>
         /\ IsPrefix(Take(Norm(lines[RunStarts[n]]), 200), result[n].institution)

\* two runs apart by repeated blank lines, returned as two entries
C8_Witness ==
  /\ EducationDone
  /\ Len(result) = 2
  /\ \E n \in 1..(Len(lines) - 1) : lines[n] = <<>> /\ lines[n + 1] = <<>>
  /\ result[1].institution # result[2].institution

\* ------------------------------------------------------------------------
\* C9
\* ------------------------------------------------------------------------

\* a line with its bullet marker, if it has one, taken off
Unbulleted(l) ==
  IF MarkerAt(l) # {} THEN SubSeq(l, (CHOOSE m \in MarkerAt(l) : TRUE) + 1, Len(l)) ELSE l

\* C9: the institution of the entry of a chunk is the lines of the chunk, each
\* with its bullet marker stripped and normalized, joined with " / " and cut
\* to 200 characters.
C9_InstitutionJoined ==
  EducationDone =>
    /\ Len(result) = Len(RunStarts)
    /\ \A n \in 1..Len(result) :
         result[n].institution =
           Take(Join(<<" ", "/", " ">>,
                     [m \in 1..Len(RunFrom(RunStarts[n])) |->
                        Norm(Unbulleted(RunFrom(RunStarts[n])[m]))]),
                200)

\* ------------------------------------------------------------------------
\* C10
\* ------------------------------------------------------------------------

\* the sections that list the phrase t in their lexicon
LexiconKeys(t) == {k \in Range(SectionKeys) : t \in UPPER_HDRS(k)}

\* the tokens of the upper-case tier, in the order of their priority
TokenGroups == <<
  [key |-> "education",      tokens |-> {W_EDUCATION}],
  [key |-> "skills",         tokens |-> {W_SKILL}],
  [key |-> "certifications", tokens |-> {W_CERT, W_LICENSE, W_LICENCE}],
  [key |-> "projects",       tokens |-> {W_PROJECT}],
  [key |-> "summary",        tokens |-> {W_SUMMARY, W_PROFILE, W_OBJECTIVE}],
  [key |-> "experience",     tokens |-> {W_EXPERIENCE, W_EMPLOY, W_CAREER}] >>

GroupHits(ln) ==
  {g \in 1..Len(TokenGroups) : \E w \in TokenGroups[g].tokens : Contains(ln, w)}

\* what the two tiers yield for line ln when t is the phrase looked up
TwoTier(ln, t) ==
  IF LexiconKeys(t) # {}
    THEN CHOOSE k \in LexiconKeys(t) : TRUE
  ELSE IF IsUpperStr(ln) /\ Len(ln) <= 40 /\ GroupHits(ln) # {}
    THEN TokenGroups[CHOOSE g \in GroupHits(ln) : \A h \in GroupHits(ln) : g <= h].key
  ELSE None

\* C10 as stated: the phrase looked up in the lexicons is the normalized,
\* lower-cased line with its trailing colons and spaces stripped; a line not
\* found there yields a section only when it is upper-case, at most 40
\* characters long and holds a token, the first group in priority order winning.
C10_TrailingStripOnly ==
  pc = "detected" =>
    sec = TwoTier(line, RStripChars(LowerStr(Norm(line)), {" ", ":"}))

\* C10 amended: the phrase looked up in the lexicons is the normalized,
\* lower-cased line with colons and spaces stripped from both of its ends;
\* the rest as stated.
C10_DetectTwoTier ==
  pc = "detected" =>
    sec = TwoTier(line, StripChars(LowerStr(Norm(line)), {" ", ":"}))

\* a lower-case lexicon phrase behind a leading colon has been classified
C10_Witness ==
  /\ pc = "detected"
  /\ line # <<>>
  /\ line[1] = ":"
  /\ ~IsUpperStr(line)
  /\ sec # None

\* ------------------------------------------------------------------------
\* C11
\* ------------------------------------------------------------------------

\* the text has no line left once its lines are stripped: it is empty, or
\* made of whitespace and line breaks only
BlankText == \A n \in 1..Len(text) : IsSpace(text[n])

\* C11: for a text that is empty or made only of whitespace and line breaks,
\* heuristic_parse returns a record whose full_name, contact_info and summary
\* are the empty string and whose work_experience, education, skills and
\* certifications have length zero.
C11_BlankTextEmptyRecord ==
  (Returned /\ BlankText) =>
    /\ DOMAIN parsed = {"full_name", "contact_info", "summary", "work_experience",
                        "education", "skills", "certifications"}
    /\ parsed["full_name"] = JStr(<<>>)
    /\ parsed["contact_info"] = JStr(<<>>)
    /\ parsed["summary"] = JStr(<<>>)
    /\ parsed["work_experience"].k = "list" /\ Len(parsed["work_experience"].v) = 0
    /\ parsed["education"].k = "list" /\ Len(parsed["education"].v) = 0
    /\ parsed["skills"].k = "list" /\ Len(parsed["skills"].v) = 0
    /\ parsed["certifications"].k = "list" /\ Len(parsed["certifications"].v) = 0

\* heuristic_parse has returned for a text of spaces, a tab or carriage
\* return, and more than one line
C11_Witness ==
  /\ Returned
  /\ BlankText
  /\ \E n \in 1..Len(text) : text[n] = " "
  /\ \E n \in 1..Len(text) : text[n] \in {"\t", "\r"}
  /\ \E n \in 1..Len(text) : text[n] = "\n"

====
